---- MODULE Spec2Model ----
(***************************************************************************)
(* The capture-retry service loop of baileybutlerlockscreen, in its two    *)
(* drafts:                                                                 *)
(*   draft "main" : src/cmd/main.go       (inline loop in main,            *)
(*                                         setLockScreen with a fallback)  *)
(*   draft "part" : src/unnamed/part_000  (runScreenshotService,           *)
(*                                         takeScreenshotWithRetry)        *)
(* One sequential process.  The browser engine, the file system, the OS    *)
(* scripting command and the clock are the environment: every outcome      *)
(* they can hand back to the program is a nondeterministic choice.         *)
(*                                                                         *)
(* Time is counted in ticks of 1/TicksPerSecond second.  Every external    *)
(* call is taken to last as short as it can (zero ticks), a sleep exactly  *)
(* its duration: the shortest schedule is the one in which two time.Now()  *)
(* readings are closest.  The wall clock is taken to be monotone, and the  *)
(* program to start within a second, not on its boundary.                  *)
(***************************************************************************)
EXTENDS Integers, Sequences, FiniteSets, TLC

VARIABLES
    draft,          \* which draft of the program runs: "main" or "part"
    flags,          \* the parsed command-line flags: width, height, sleep
    cfg,            \* part_000's config struct built by parseFlags
    pc,             \* position of the single thread of control
    attempt,        \* the retry loop's variable (attempts in main.go, attempt in part_000)
    lastErr,        \* lastErr of the retry loop
    cycleErr,       \* what the retry routine ended with (main.go:57 lastErr, part_000:71 err)
    err,            \* return value of the current takeAndSetScreenshot call
    session,        \* contexts of the current attempt that are created and not cancelled
    proc,           \* whether the browser process of the current attempt runs
    leaked,         \* kinds of context left un-cancelled by attempts that returned
    screenshotPath, \* screenshotPath of the current attempt (its timestamp)
    buf,            \* buf of the current attempt
    steps,          \* the chromedp actions the current attempt has started
    osCalls,        \* the OS commands setLockScreen ran in the current attempt
    files,          \* the output directory: set of [name, data]
    orphaned,       \* files written by an attempt whose apply then failed
    dirBefore,      \* names in the output directory when the cycle started
    clock,          \* wall clock, in ticks
    cycle,          \* number of cycles started
    tracking,       \* whether clock, files and cycle are recorded (see Init)
    faults,         \* calls that failed or outlasted a deadline, browser log lines, while tracking
    created,        \* attempts of the current cycle that created their file
    ops,            \* what the current attempt did: capture, write, apply
    events,         \* the schedule of the current cycle: sleeps, attempts, returns
    log             \* the log lines of the current cycle

vars == <<draft, flags, cfg, pc, attempt, lastErr, cycleErr, err, session, proc,
          leaked, screenshotPath, buf, steps, osCalls, files, orphaned,
          dirBefore, clock, cycle, tracking, faults, created, ops, events, log>>

-----------------------------------------------------------------------------
(* Bounds of the model *)

\* cycles whose effect on the clock and the output directory is recorded
MaxCycles == 2
\* clock ticks per second
TicksPerSecond == 2
\* calls the environment lets fail or outlast a deadline, and lines the
\* browser has logged, while the clock and the directory are recorded
MaxFaults == 3
\* lines the browser's log callbacks write in one cycle
MaxBrowserLines == 1

-----------------------------------------------------------------------------
(* Program constants, in seconds *)

maxRetries == 3
retryDelay == 30
browserTimeout == 180
renderWait == 5
Minute == 60
mainMaxAttempts == 3
mainRetryDelay == 30
mainRenderWait == 5
mainAllocTimeout == 120
mainPageTimeout == 180

\* values the width, height and sleep flags are given: the defaults, and
\* values no screenshot can have
FlagValues ==
    { [width |-> 3440, height |-> 1440, sleep |-> 10],
      [width |-> 0,    height |-> -1,   sleep |-> 0] }

\* images the rendering engine returns
Images == { <<80, 78>> }

parseFlags(f) ==
    [width |-> f.width, height |-> f.height, sleepTime |-> f.sleep * Minute]

\* main.go:64, time.Duration(*sleepTime) * time.Minute
mainInterval(f) == f.sleep * Minute

-----------------------------------------------------------------------------
(* Errors and log lines *)

\* error values: kind names the wrapping of takeAndSetScreenshot, attempt the
\* number takeScreenshotWithRetry wraps in (0: none), out the raw output of a
\* failed OS command carried in the message
NoErr == [kind |-> "nil", attempt |-> 0, out |-> ""]
Error(k, o) == [kind |-> k, attempt |-> 0, out |-> o]

\* part_000:89, fmt.Errorf("attempt %d failed: %w", attempt, err)
WrapAttempt(n, e) == [e EXCEPT !.attempt = n]

Line(m, n, e) == [msg |-> m, n |-> n, err |-> e]

\* an entry of events or ops: n the attempt's number (0: none), v a duration
\* in seconds, a path or the number of actions that succeeded, k the kind of
\* the error returned ("nil": none)
Ev(op, n, v, k) == [op |-> op, n |-> n, v |-> v, k |-> k]

-----------------------------------------------------------------------------
(* Clock *)

\* time.Sleep(d): returns at once when d <= 0
Slept(t, d) == IF tracking THEN t + (IF d > 0 THEN d ELSE 0) * TicksPerSecond ELSE t

\* a layout that stops at the minute, "20060102_1504"
FormatMinute(t) == t \div (TicksPerSecond * 60)

\* time.Now().Format("20060102_150405"): the instant cut to whole seconds
Format(t) == t \div TicksPerSecond

-----------------------------------------------------------------------------
(* Contexts *)

\* main.go:127-147: allocCtx <- allocatorContext <- ctx <- ctx(3 min)
\* part_000:130-135: allocCtx <- ctx <- ctx(browserTimeout)
Parent(c) ==
    CASE c = "page"      -> "browser"
      [] c = "browser"   -> "allocator"
      [] c = "allocator" -> IF draft = "main" THEN "allocTimeout" ELSE "none"
      [] OTHER           -> "none"

RECURSIVE Under(_, _)
\* whether context c is a or derives from a
Under(c, a) == IF c = a THEN TRUE ELSE IF c = "none" THEN FALSE ELSE Under(Parent(c), a)

\* calling a context's cancel function cancels it and all that derives from it
Cancel(live, a) == { c \in live : ~Under(c, a) }

RECURSIVE CancelAll(_, _)
CancelAll(live, cs) ==
    IF cs = <<>> THEN live ELSE CancelAll(Cancel(live, Head(cs)), Tail(cs))

\* main.go:128,131,143,147: the four deferred cancels, run last to first
mainDeferred == <<"page", "browser", "allocator", "allocTimeout">>

\* part_000:98-99,130-136: the one cancel createBrowserContext returns
partDeferred == <<"page">>

-----------------------------------------------------------------------------
(* chromedp.Run *)

\* main.go:156-182 (the ActionFunc steps only log and return nil)
mainActions ==
    <<"Allocate", "network.Enable", "SetExtraHTTPHeaders", "EmulateViewport",
      "Navigate", "WaitVisible", "Sleep", "FullScreenshot">>

\* main.go:162-180: the line the ActionFunc placed before an action logs
mainLogBefore ==
    [ Navigate       |-> "Navigating to page...",
      WaitVisible    |-> "Waiting for body to be visible...",
      Sleep          |-> "Waiting for full page render...",
      FullScreenshot |-> "Taking screenshot..." ]

\* the lines chromedp.Run has logged when it has run the actions ran: an
\* ActionFunc cannot fail, so its line is there as soon as the action after
\* it is reached
mainCaptureLog(ran) ==
    LET s == SelectSeq(ran, LAMBDA a : a \in DOMAIN mainLogBefore)
    IN  [i \in 1..Len(s) |-> Line(mainLogBefore[s[i]], 0, NoErr)]

\* part_000:140-149
partActions ==
    <<"Allocate", "network.Enable", "SetExtraHTTPHeaders",
      "Navigate", "WaitVisible", "Sleep", "FullScreenshot">>

\* every action is run, whether or not one before it failed
AfterActionGoOn(ok, last) ==
    IF last THEN (IF ok THEN "write" ELSE "return") ELSE "capture"

\* chromedp.Run runs the actions in order: the error of an action ends Run
\* with that error, and Run returns nil after the last action.  Where the
\* goroutine is once an action has returned: in the next action, back in
\* the caller with an error, or back in the caller to write the file
AfterAction(ok, last) ==
    IF ~ok THEN "return" ELSE IF last THEN "write" ELSE "capture"

Has(s, x) == \E i \in 1..Len(s) : s[i] = x

-----------------------------------------------------------------------------
(* os.WriteFile *)

Names(fs) == { f.name : f \in fs }

\* every attempt writes one fixed file name
WriteFileOneName(fs, name, data, outcome, n) ==
    CASE outcome = "open"  -> fs
      [] outcome = "write" ->
            { f \in fs : f.name # 0 } \cup {[name |-> 0, data |-> SubSeq(data, 1, n)]}
      [] OTHER ->
            { f \in fs : f.name # 0 } \cup {[name |-> 0, data |-> data]}

\* os.WriteFile(name, data, 0644): open with O_CREATE|O_TRUNC, write, close.
\* outcome "open": the open fails; "write": the write fails after n bytes;
\* "ok": all of data is written.
WriteFile(fs, name, data, outcome, n) ==
    CASE outcome = "open"  -> fs
      [] outcome = "write" ->
            { f \in fs : f.name # name } \cup {[name |-> name, data |-> SubSeq(data, 1, n)]}
      [] OTHER ->
            { f \in fs : f.name # name } \cup {[name |-> name, data |-> data]}

-----------------------------------------------------------------------------
(* setLockScreen *)

\* what a "try ... on error return ..." osascript run through bash hands back:
\* osascript prints the returned text and a newline and exits 0; bash exits
\* non-zero when the command cannot run
TryScriptResults ==
    { [exit |-> 0, out |-> "Success\n"],
      [exit |-> 0, out |-> "Success"],
      [exit |-> 0, out |-> "Error: msg\n"],
      [exit |-> 127, out |-> "bash: osascript: command not found\n"] }

\* what the plain osascript of part_000 hands back: a script error exits non-zero
PlainScriptResults ==
    { [exit |-> 0, out |-> ""],
      [exit |-> 1, out |-> "execution error: msg\n"] }

Call(script, r) == [script |-> script, exit |-> r.exit, out |-> r.out]

\* main.go:68-109, r1 and r2 the results of the two commands if run
mainSetLockScreen(r1, r2) ==
    IF r1.exit # 0
    THEN [calls |-> <<Call("lock", r1)>>, err |-> Error("lockscreen", r1.out)]
    ELSE IF r1.out # "Success"
         THEN IF r2.exit # 0
              THEN [calls |-> <<Call("lock", r1), Call("desktop", r2)>>,
                    err |-> Error("lockscreen", r2.out)]
              ELSE [calls |-> <<Call("lock", r1), Call("desktop", r2)>>, err |-> NoErr]
         ELSE [calls |-> <<Call("lock", r1)>>, err |-> NoErr]

\* part_000:152-166
partSetLockScreen(r) ==
    IF r.exit # 0
    THEN [calls |-> <<Call("lock", r)>>, err |-> Error("lockscreen", r.out)]
    ELSE [calls |-> <<Call("lock", r)>>, err |-> NoErr]

-----------------------------------------------------------------------------
(* Initial states *)

InitCommon ==
    /\ draft \in {"main", "part"}
    /\ flags \in FlagValues
    /\ cfg = parseFlags(flags)
    /\ pc = "start"
    /\ attempt = 0
    /\ lastErr = NoErr
    /\ cycleErr = NoErr
    /\ err = NoErr
    /\ session = {}
    /\ proc = FALSE
    /\ leaked = {}
    /\ screenshotPath = 0
    /\ buf = <<>>
    /\ steps = <<>>
    /\ osCalls = <<>>
    /\ files = {}
    /\ orphaned = {}
    /\ dirBefore = {}
    /\ clock = TicksPerSecond - 1
    /\ cycle = 0
    /\ faults = 0
    /\ created = 0
    /\ ops = <<>>
    /\ events = <<>>
    /\ log = <<>>

\* the first MaxCycles cycles, with the clock and the output directory recorded
Init == InitCommon /\ tracking = TRUE

\* the loop without end: the clock, the output directory and the cycle count
\* are not recorded, so the state space is finite
InitLive == InitCommon /\ tracking = FALSE

\* whether the environment may let one more call fail or outlast a deadline
MayFail == tracking => faults < MaxFaults

-----------------------------------------------------------------------------
(* Startup *)

\* the positions of main before the scheduler loop is entered
StartupPcs == {"start", "home", "mkdir"}

\* log.Fatal prints the line and calls os.Exit(1)
Fatal(m, k) == Line(m, 0, Error(k, ""))

\* a failed startup step is logged and the program goes on
mainAfterStartupStepGoOn(ok, next) == next

\* main.go:30-32,34-36: if err != nil { log.Fatal(err) }
mainAfterStartupStep(ok, next) == IF ok THEN next ELSE "exit"

\* part_000:58-60,63-65: if err != nil { log.Fatal(...) }
partAfterStartupStep(ok, next) == IF ok THEN next ELSE "exit"

\* main.go:19-26: flag.Parse() exits with status 2 on a flag it cannot parse;
\* then the first log line
mainParseFlags ==
    /\ draft = "main" /\ pc = "start"
    /\ \E ok \in BOOLEAN :
        /\ pc' = IF ok THEN "home" ELSE "exit"
        /\ log' = IF ok
                  THEN Append(log, Line("Starting screenshot service...", 0, NoErr))
                  ELSE Append(log, Line("flag: usage", 0, Error("flag", "")))
    /\ UNCHANGED <<draft, flags, cfg, attempt, lastErr, cycleErr, err, session, proc,
                   leaked, screenshotPath, buf, steps, osCalls, files, orphaned,
                   dirBefore, clock, cycle, tracking, faults, created, ops, events>>

\* main.go:29-32
mainUserHomeDir ==
    /\ draft = "main" /\ pc = "home"
    /\ \E ok \in BOOLEAN :
        /\ pc' = mainAfterStartupStep(ok, "mkdir")
        /\ log' = IF ok THEN log ELSE Append(log, Fatal("%v", "home"))
    /\ UNCHANGED <<draft, flags, cfg, attempt, lastErr, cycleErr, err, session, proc,
                   leaked, screenshotPath, buf, steps, osCalls, files, orphaned,
                   dirBefore, clock, cycle, tracking, faults, created, ops, events>>

\* main.go:33-36
mainMkdirAll ==
    /\ draft = "main" /\ pc = "mkdir"
    /\ \E ok \in BOOLEAN :
        /\ pc' = mainAfterStartupStep(ok, "cycle")
        /\ log' = IF ok THEN log ELSE Append(log, Fatal("%v", "mkdir"))
    /\ UNCHANGED <<draft, flags, cfg, attempt, lastErr, cycleErr, err, session, proc,
                   leaked, screenshotPath, buf, steps, osCalls, files, orphaned,
                   dirBefore, clock, cycle, tracking, faults, created, ops, events>>

\* part_000:25-26,39-50: flag.Parse() exits with status 2 on a flag it cannot parse
partParseFlags ==
    /\ draft = "part" /\ pc = "start"
    /\ \E ok \in BOOLEAN :
        /\ pc' = IF ok THEN "home" ELSE "exit"
        /\ log' = IF ok THEN log
                  ELSE Append(log, Line("flag: usage", 0, Error("flag", "")))
    /\ UNCHANGED <<draft, flags, cfg, attempt, lastErr, cycleErr, err, session, proc,
                   leaked, screenshotPath, buf, steps, osCalls, files, orphaned,
                   dirBefore, clock, cycle, tracking, faults, created, ops, events>>

\* part_000:57-60
partUserHomeDir ==
    /\ draft = "part" /\ pc = "home"
    /\ \E ok \in BOOLEAN :
        /\ pc' = partAfterStartupStep(ok, "mkdir")
        /\ log' = IF ok THEN log
                  ELSE Append(log, Fatal("Failed to get user home directory:", "home"))
    /\ UNCHANGED <<draft, flags, cfg, attempt, lastErr, cycleErr, err, session, proc,
                   leaked, screenshotPath, buf, steps, osCalls, files, orphaned,
                   dirBefore, clock, cycle, tracking, faults, created, ops, events>>

\* part_000:62-66,27-30: the directory, then the first log line and the loop
partMkdirAll ==
    /\ draft = "part" /\ pc = "mkdir"
    /\ \E ok \in BOOLEAN :
        /\ pc' = partAfterStartupStep(ok, "cycle")
        /\ log' = IF ok
                  THEN Append(log, Line("Starting screenshot service...", 0, NoErr))
                  ELSE Append(log, Fatal("Failed to create screenshots directory:", "mkdir"))
    /\ UNCHANGED <<draft, flags, cfg, attempt, lastErr, cycleErr, err, session, proc,
                   leaked, screenshotPath, buf, steps, osCalls, files, orphaned,
                   dirBefore, clock, cycle, tracking, faults, created, ops, events>>

-----------------------------------------------------------------------------
(* The scheduler loop and the retry loop *)

\* the delay also before the first attempt
mainSleepsBeforeEvery(a) == a >= 0

\* main.go:43, if attempts > 0
mainSleepsBefore(a) == a > 0

\* the condition of main.go, whose count starts at 0, on a count that starts at 1
partSleepsBeforeFromZero(a) == a > 0

\* part_000:83, if attempt > 1
partSleepsBefore(a) == a > 1

\* main.go:49, lastErr = err
mainNextLastErr(prev, n, e) == e

\* the first error is kept
partNextLastErrKeepFirst(prev, n, e) == IF prev # NoErr THEN prev ELSE WrapAttempt(n, e)

\* part_000:89, lastErr = fmt.Errorf("attempt %d failed: %w", attempt, err)
partNextLastErr(prev, n, e) == WrapAttempt(n, e)

\* the loop ends when all attempts of a cycle failed
mainAfterReportStop(e) == IF e # NoErr THEN "exit" ELSE "cycle"

\* main.go:39,65: for { ... } has no exit, whatever lastErr is
mainAfterReport(e) == "cycle"

\* part_000:70,77: for { ... } has no exit, whatever err is
partAfterReport(e) == "cycle"

\* the write's error is not checked
mainAfterWriteGoOn(outcome) == "apply"

\* main.go:189-193: a failed write returns, a good one goes on to setLockScreen
mainAfterWrite(outcome) == IF outcome = "ok" THEN "apply" ELSE "return"

\* part_000:109-113
partAfterWrite(outcome) == IF outcome = "ok" THEN "apply" ELSE "return"

\* main.go:39-42, the top of for {}: var lastErr error; attempts := 0
mainCycleStart ==
    /\ draft = "main" /\ pc = "cycle"
    /\ tracking => cycle < MaxCycles
    /\ cycle' = IF tracking THEN cycle + 1 ELSE cycle
    /\ lastErr' = NoErr
    /\ cycleErr' = NoErr
    /\ attempt' = 0
    /\ dirBefore' = Names(files)
    /\ created' = 0
    /\ events' = <<>>
    /\ log' = <<>>
    /\ pc' = "loop"
    /\ UNCHANGED <<draft, flags, cfg, err, session, proc, leaked, screenshotPath,
                   buf, steps, osCalls, files, orphaned, clock, tracking, faults, ops>>

\* main.go:42-46, one more attempt: from the second on, log and sleep 30 s
mainRetryIter ==
    /\ draft = "main" /\ pc = "loop"
    /\ attempt < mainMaxAttempts
    /\ IF mainSleepsBefore(attempt)
       THEN /\ log' = Append(log, Line("Retry attempt %d/3 after failure", attempt + 1, NoErr))
            /\ clock' = Slept(clock, mainRetryDelay)
            /\ events' = Append(events, Ev("sleep", attempt + 1, mainRetryDelay, "nil"))
       ELSE UNCHANGED <<log, clock, events>>
    /\ pc' = "acquire"
    /\ UNCHANGED <<draft, flags, cfg, attempt, lastErr, cycleErr, err, session, proc,
                   leaked, screenshotPath, buf, steps, osCalls, files, orphaned,
                   dirBefore, cycle, tracking, faults, created, ops>>

\* main.go:42, the loop condition fails after the third failure
mainLoopExit ==
    /\ draft = "main" /\ pc = "loop"
    /\ ~(attempt < mainMaxAttempts)
    /\ cycleErr' = lastErr
    /\ pc' = "report"
    /\ UNCHANGED <<draft, flags, cfg, attempt, lastErr, err, session, proc, leaked,
                   screenshotPath, buf, steps, osCalls, files, orphaned, dirBefore,
                   clock, cycle, tracking, faults, created, ops, events, log>>

\* main.go:48-54, the result of takeAndSetScreenshot
mainHandleResult ==
    /\ draft = "main" /\ pc = "result"
    /\ IF err # NoErr
       THEN /\ lastErr' = mainNextLastErr(lastErr, attempt + 1, err)
            /\ log' = Append(log, Line("Attempt %d failed with error: %v", attempt + 1, err))
            /\ attempt' = attempt + 1
            /\ cycleErr' = cycleErr
            /\ pc' = "loop"
       ELSE /\ lastErr' = NoErr
            /\ cycleErr' = NoErr
            /\ UNCHANGED <<log, attempt>>
            /\ pc' = "report"
    /\ UNCHANGED <<draft, flags, cfg, err, session, proc, leaked, screenshotPath,
                   buf, steps, osCalls, files, orphaned, dirBefore, clock, cycle,
                   tracking, faults, created, ops, events>>

\* main.go:57-64, log the outcome and sleep the interval
mainReport ==
    /\ draft = "main" /\ pc = "report"
    /\ log' = log \o
         << IF lastErr # NoErr
            THEN Line("All attempts failed. Last error: %v", 0, lastErr)
            ELSE Line("Successfully updated screenshot", 0, NoErr),
            Line("Waiting %d minutes before next update...", flags.sleep, NoErr) >>
    /\ clock' = Slept(clock, mainInterval(flags))
    /\ events' = Append(events, Ev("sleep", 0, mainInterval(flags), "nil"))
    /\ pc' = mainAfterReport(lastErr)
    /\ UNCHANGED <<draft, flags, cfg, attempt, lastErr, cycleErr, err, session, proc,
                   leaked, screenshotPath, buf, steps, osCalls, files, orphaned,
                   dirBefore, cycle, tracking, faults, created, ops>>

\* part_000:70-71,81-82: the top of for {}, the call of takeScreenshotWithRetry
partCycleStart ==
    /\ draft = "part" /\ pc = "cycle"
    /\ tracking => cycle < MaxCycles
    /\ cycle' = IF tracking THEN cycle + 1 ELSE cycle
    /\ lastErr' = NoErr
    /\ cycleErr' = NoErr
    /\ attempt' = 1
    /\ dirBefore' = Names(files)
    /\ created' = 0
    /\ events' = <<>>
    /\ log' = <<>>
    /\ pc' = "loop"
    /\ UNCHANGED <<draft, flags, cfg, err, session, proc, leaked, screenshotPath,
                   buf, steps, osCalls, files, orphaned, clock, tracking, faults, ops>>

\* part_000:82-86
partRetryIter ==
    /\ draft = "part" /\ pc = "loop"
    /\ attempt <= maxRetries
    /\ IF partSleepsBefore(attempt)
       THEN /\ log' = Append(log, Line("Retry attempt %d/%d", attempt, NoErr))
            /\ clock' = Slept(clock, retryDelay)
            /\ events' = Append(events, Ev("sleep", attempt, retryDelay, "nil"))
       ELSE UNCHANGED <<log, clock, events>>
    /\ pc' = "acquire"
    /\ UNCHANGED <<draft, flags, cfg, attempt, lastErr, cycleErr, err, session, proc,
                   leaked, screenshotPath, buf, steps, osCalls, files, orphaned,
                   dirBefore, cycle, tracking, faults, created, ops>>

\* part_000:82,94: the loop ends, return lastErr
partLoopExit ==
    /\ draft = "part" /\ pc = "loop"
    /\ ~(attempt <= maxRetries)
    /\ cycleErr' = lastErr
    /\ pc' = "report"
    /\ UNCHANGED <<draft, flags, cfg, attempt, lastErr, err, session, proc, leaked,
                   screenshotPath, buf, steps, osCalls, files, orphaned, dirBefore,
                   clock, cycle, tracking, faults, created, ops, events, log>>

\* part_000:88-92
partHandleResult ==
    /\ draft = "part" /\ pc = "result"
    /\ IF err # NoErr
       THEN /\ lastErr' = partNextLastErr(lastErr, attempt, err)
            /\ attempt' = attempt + 1
            /\ cycleErr' = cycleErr
            /\ pc' = "loop"
       ELSE /\ cycleErr' = NoErr
            /\ UNCHANGED <<lastErr, attempt>>
            /\ pc' = "report"
    /\ UNCHANGED <<draft, flags, cfg, err, session, proc, leaked, screenshotPath,
                   buf, steps, osCalls, files, orphaned, dirBefore, clock, cycle,
                   tracking, faults, created, ops, events, log>>

\* part_000:71-76
partReport ==
    /\ draft = "part" /\ pc = "report"
    /\ log' = log \o
         (IF cycleErr # NoErr
          THEN << Line("All screenshot attempts failed: %v", 0, cycleErr) >>
          ELSE << >>) \o
         << Line("Waiting %d minutes before next update...", cfg.sleepTime \div Minute, NoErr) >>
    /\ clock' = Slept(clock, cfg.sleepTime)
    /\ events' = Append(events, Ev("sleep", 0, cfg.sleepTime, "nil"))
    /\ pc' = partAfterReport(cycleErr)
    /\ UNCHANGED <<draft, flags, cfg, attempt, lastErr, cycleErr, err, session, proc,
                   leaked, screenshotPath, buf, steps, osCalls, files, orphaned,
                   dirBefore, cycle, tracking, faults, created, ops>>

-----------------------------------------------------------------------------
(* One attempt: takeAndSetScreenshot *)

\* the attempt's number as the logs count it: attempts+1 in main.go, attempt in part_000
AttemptNo == IF draft = "main" THEN attempt + 1 ELSE attempt

\* the count of such calls after one more
Failed == IF tracking THEN faults + 1 ELSE faults

\* the context of the attempt that carries the first deadline to expire:
\* main.go:127 allocCtx (2 min, the root of the four), part_000:135 ctx
TimeoutCtx == IF draft = "main" THEN "allocTimeout" ELSE "page"

\* main.go:113-156: the four contexts, the path from time.Now(), and
\* chromedp.Run is called: it starts to allocate the browser
mainAcquire ==
    /\ draft = "main" /\ pc = "acquire"
    /\ session' = {"allocTimeout", "allocator", "browser", "page"}
    /\ proc' = FALSE
    /\ screenshotPath' = Format(clock)
    /\ log' = Append(log, Line("Starting browser and navigating to page...", 0, NoErr))
    /\ events' = Append(events, Ev("attempt", AttemptNo, Format(clock), "nil"))
    /\ steps' = << mainActions[1] >>
    /\ pc' = "capture"
    /\ UNCHANGED <<draft, flags, cfg, attempt, lastErr, cycleErr, err, leaked, buf,
                   osCalls, files, orphaned, dirBefore, clock, cycle,
                   tracking, faults, created, ops>>

\* main.go:155-186: the action chromedp.Run waits in, the last of steps,
\* returns.  It returns an error once the deadline of allocCtx has passed.
\* After an action that succeeded, Run starts the next one, the ActionFunc
\* before it having logged its line; after the last one, Run returns and
\* the function logs where it saves the screenshot and calls os.WriteFile
mainCapture ==
    /\ draft = "main" /\ pc = "capture"
    /\ \E ok \in BOOLEAN, img \in Images :
        LET i    == Len(steps)
            last == i = Len(mainActions)
            live == TimeoutCtx \in session
            nxt  == AfterAction(ok, last)
        IN
        /\ ~live => ~ok
        /\ (~ok /\ live) => MayFail
        /\ faults' = IF ~ok /\ live THEN Failed ELSE faults
        /\ proc' = IF ok /\ steps[i] = "Allocate" THEN TRUE ELSE proc
        /\ clock' = IF ok /\ steps[i] = "Sleep" THEN Slept(clock, mainRenderWait) ELSE clock
        /\ pc' = nxt
        /\ steps' = IF nxt = "capture" THEN Append(steps, mainActions[i + 1]) ELSE steps
        /\ log' = IF nxt = "capture"
                  THEN log \o mainCaptureLog(<< mainActions[i + 1] >>)
                  ELSE IF nxt = "write"
                  THEN Append(log, Line("Saving screenshot to: %s", screenshotPath, NoErr))
                  ELSE log
        /\ buf' = IF nxt = "write" THEN img ELSE buf
        /\ IF ~ok
           THEN /\ err' = Error("capture", "")
                /\ ops' = Append(ops, Ev("capture", AttemptNo, i - 1, "capture"))
           ELSE IF nxt = "write"
           THEN /\ err' = NoErr
                /\ ops' = Append(ops, Ev("capture", AttemptNo, i, "nil"))
           ELSE UNCHANGED <<err, ops>>
    /\ UNCHANGED <<draft, flags, cfg, attempt, lastErr, cycleErr, session, leaked,
                   screenshotPath, osCalls, files, orphaned, dirBefore, cycle,
                   tracking, created, events>>

\* main.go:189-194,83: os.WriteFile returns; when it wrote the file, the
\* function logs that it sets the lock screen and setLockScreen runs the lock
\* command
mainWrite ==
    /\ draft = "main" /\ pc = "write"
    /\ \E outcome \in {"ok", "open", "write"}, n \in 0..(Len(buf) - 1) :
        /\ outcome # "ok" => MayFail
        /\ files' = IF tracking THEN WriteFile(files, screenshotPath, buf, outcome, n) ELSE files
        /\ created' = IF outcome # "open" THEN created + 1 ELSE created
        /\ pc' = mainAfterWrite(outcome)
        /\ log' = IF mainAfterWrite(outcome) = "apply"
                  THEN Append(log, Line("Setting as lock screen...", 0, NoErr))
                  ELSE log
        /\ IF outcome = "ok"
           THEN /\ err' = NoErr
                /\ faults' = faults
                /\ ops' = Append(ops, Ev("write", AttemptNo, screenshotPath, "nil"))
           ELSE /\ err' = Error("save", "")
                /\ faults' = Failed
                /\ ops' = Append(ops, Ev("write", AttemptNo, screenshotPath, "save"))
    /\ UNCHANGED <<draft, flags, cfg, attempt, lastErr, cycleErr, session, proc, leaked,
                   screenshotPath, buf, steps, osCalls, orphaned, dirBefore, clock,
                   cycle, tracking, events>>

\* main.go:84-89 after the first command returned r1: whether setLockScreen
\* goes on to the desktop command
mainTriesFallback(r1) == r1.exit = 0 /\ r1.out # "Success"

\* a failed apply removes the file it could not apply
mainApplyRemovesFile ==
    /\ draft = "main" /\ pc = "apply"
    /\ \E r1 \in TryScriptResults :
        IF mainTriesFallback(r1)
        THEN /\ osCalls' = << Call("lock", r1) >>
             /\ log' = Append(log, Line("Trying alternate method...", 0, NoErr))
             /\ pc' = "fallback"
             /\ UNCHANGED <<err, faults, ops, orphaned, files>>
        ELSE LET res == mainSetLockScreen(r1, r1) IN
             /\ res.err # NoErr => MayFail
             /\ osCalls' = res.calls
             /\ files' = IF res.err # NoErr
                         THEN { f \in files : f.name # screenshotPath }
                         ELSE files
             /\ err' = res.err
             /\ faults' = IF res.err # NoErr THEN Failed ELSE faults
             /\ log' = log
             /\ ops' = Append(ops, Ev("apply", AttemptNo, screenshotPath, res.err.kind))
             /\ orphaned' = IF tracking /\ res.err # NoErr
                            THEN orphaned \cup {[name |-> screenshotPath, data |-> buf]}
                            ELSE orphaned
             /\ pc' = "return"
    /\ UNCHANGED <<draft, flags, cfg, attempt, lastErr, cycleErr, session, proc, leaked,
                   screenshotPath, buf, steps, dirBefore, clock, cycle,
                   tracking, created, events>>

\* main.go:83-102,194-198: the lock command returns r1; setLockScreen
\* returns, or logs that it tries the alternate method and runs the desktop
\* command
mainApply ==
    /\ draft = "main" /\ pc = "apply"
    /\ \E r1 \in TryScriptResults :
        IF mainTriesFallback(r1)
        THEN /\ osCalls' = << Call("lock", r1) >>
             /\ log' = Append(log, Line("Trying alternate method...", 0, NoErr))
             /\ pc' = "fallback"
             /\ UNCHANGED <<err, faults, ops, orphaned>>
        ELSE LET res == mainSetLockScreen(r1, r1) IN
             /\ res.err # NoErr => MayFail
             /\ osCalls' = res.calls
             /\ err' = res.err
             /\ faults' = IF res.err # NoErr THEN Failed ELSE faults
             /\ log' = log
             /\ ops' = Append(ops, Ev("apply", AttemptNo, screenshotPath, res.err.kind))
             /\ orphaned' = IF tracking /\ res.err # NoErr
                            THEN orphaned \cup {[name |-> screenshotPath, data |-> buf]}
                            ELSE orphaned
             /\ pc' = "return"
    /\ UNCHANGED <<draft, flags, cfg, attempt, lastErr, cycleErr, session, proc, leaked,
                   screenshotPath, buf, steps, files, dirBefore, clock, cycle,
                   tracking, created, events>>

\* main.go:92-108,194-198: the desktop command returns r2 and setLockScreen
\* returns
mainApplyFallback ==
    /\ draft = "main" /\ pc = "fallback"
    /\ \E r2 \in TryScriptResults :
        LET res == mainSetLockScreen([exit |-> osCalls[1].exit, out |-> osCalls[1].out], r2) IN
        /\ res.err # NoErr => MayFail
        /\ osCalls' = res.calls
        /\ err' = res.err
        /\ faults' = IF res.err # NoErr THEN Failed ELSE faults
        /\ ops' = Append(ops, Ev("apply", AttemptNo, screenshotPath, res.err.kind))
        /\ orphaned' = IF tracking /\ res.err # NoErr
                       THEN orphaned \cup {[name |-> screenshotPath, data |-> buf]}
                       ELSE orphaned
    /\ pc' = "return"
    /\ UNCHANGED <<draft, flags, cfg, attempt, lastErr, cycleErr, session, proc, leaked,
                   screenshotPath, buf, steps, files, dirBefore, clock, cycle,
                   tracking, created, events, log>>

\* main.go:128,131,143,147,198: the function returns: its deferred cancels
\* run and its locals are gone
mainReturn ==
    /\ draft = "main" /\ pc = "return"
    /\ session' = CancelAll(session, mainDeferred)
    /\ proc' = (proc /\ "page" \in session')
    /\ leaked' = leaked \cup session'
    /\ events' = Append(events, Ev("return", AttemptNo, 0, err.kind))
    /\ screenshotPath' = 0
    /\ buf' = <<>>
    /\ steps' = <<>>
    /\ osCalls' = <<>>
    /\ ops' = <<>>
    /\ pc' = "result"
    /\ UNCHANGED <<draft, flags, cfg, attempt, lastErr, cycleErr, err, files, orphaned,
                   dirBefore, clock, cycle, tracking, faults, created, log>>

\* part_000:98-104 with createBrowserContext, part_000:121-137, and
\* captureScreenshot up to chromedp.Run, which starts to allocate the browser
partAcquire ==
    /\ draft = "part" /\ pc = "acquire"
    /\ session' = {"allocator", "browser", "page"}
    /\ proc' = FALSE
    /\ screenshotPath' = Format(clock)
    /\ events' = Append(events, Ev("attempt", AttemptNo, Format(clock), "nil"))
    /\ steps' = << partActions[1] >>
    /\ pc' = "capture"
    /\ UNCHANGED <<draft, flags, cfg, attempt, lastErr, cycleErr, err, leaked, buf,
                   osCalls, files, orphaned, dirBefore, clock, cycle,
                   tracking, faults, created, ops, log>>

\* part_000:104-109 with captureScreenshot, part_000:139-150: the action
\* chromedp.Run waits in, the last of steps, returns.  It returns an error
\* once browserTimeout of the context the actions run on has passed.  After
\* an action that succeeded, Run starts the next one; after the last one,
\* Run returns and the function calls os.WriteFile
partCapture ==
    /\ draft = "part" /\ pc = "capture"
    /\ \E ok \in BOOLEAN, img \in Images :
        LET i    == Len(steps)
            last == i = Len(partActions)
            live == TimeoutCtx \in session
            nxt  == AfterAction(ok, last)
        IN
        /\ ~live => ~ok
        /\ (~ok /\ live) => MayFail
        /\ faults' = IF ~ok /\ live THEN Failed ELSE faults
        /\ proc' = IF ok /\ steps[i] = "Allocate" THEN TRUE ELSE proc
        /\ clock' = IF ok /\ steps[i] = "Sleep" THEN Slept(clock, renderWait) ELSE clock
        /\ pc' = nxt
        /\ steps' = IF nxt = "capture" THEN Append(steps, partActions[i + 1]) ELSE steps
        /\ buf' = IF nxt = "write" THEN img ELSE buf
        /\ IF ~ok
           THEN /\ err' = Error("capture", "")
                /\ ops' = Append(ops, Ev("capture", AttemptNo, i - 1, "capture"))
           ELSE IF nxt = "write"
           THEN /\ err' = NoErr
                /\ ops' = Append(ops, Ev("capture", AttemptNo, i, "nil"))
           ELSE UNCHANGED <<err, ops>>
    /\ UNCHANGED <<draft, flags, cfg, attempt, lastErr, cycleErr, session, leaked,
                   screenshotPath, osCalls, files, orphaned, dirBefore, cycle,
                   tracking, created, events, log>>

\* part_000:109-111
partWrite ==
    /\ draft = "part" /\ pc = "write"
    /\ \E outcome \in {"ok", "open", "write"}, n \in 0..(Len(buf) - 1) :
        /\ outcome # "ok" => MayFail
        /\ files' = IF tracking THEN WriteFile(files, screenshotPath, buf, outcome, n) ELSE files
        /\ created' = IF outcome # "open" THEN created + 1 ELSE created
        /\ pc' = partAfterWrite(outcome)
        /\ IF outcome = "ok"
           THEN /\ err' = NoErr
                /\ faults' = faults
                /\ ops' = Append(ops, Ev("write", AttemptNo, screenshotPath, "nil"))
           ELSE /\ err' = Error("save", "")
                /\ faults' = Failed
                /\ ops' = Append(ops, Ev("write", AttemptNo, screenshotPath, "save"))
    /\ UNCHANGED <<draft, flags, cfg, attempt, lastErr, cycleErr, session, proc, leaked,
                   screenshotPath, buf, steps, osCalls, orphaned, dirBefore, clock,
                   cycle, tracking, events, log>>

\* part_000:113-118 with setLockScreen, part_000:152-166
partApply ==
    /\ draft = "part" /\ pc = "apply"
    /\ \E r \in PlainScriptResults :
        LET res == partSetLockScreen(r) IN
        /\ res.err # NoErr => MayFail
        /\ osCalls' = res.calls
        /\ err' = res.err
        /\ faults' = IF res.err # NoErr THEN Failed ELSE faults
        /\ log' = IF res.err = NoErr
                  THEN Append(log, Line("Successfully updated screenshot", 0, NoErr))
                  ELSE log
        /\ ops' = Append(ops, Ev("apply", AttemptNo, screenshotPath, res.err.kind))
        /\ orphaned' = IF tracking /\ res.err # NoErr
                       THEN orphaned \cup {[name |-> screenshotPath, data |-> buf]}
                       ELSE orphaned
    /\ pc' = "return"
    /\ UNCHANGED <<draft, flags, cfg, attempt, lastErr, cycleErr, session, proc, leaked,
                   screenshotPath, buf, steps, files, dirBefore, clock, cycle,
                   tracking, created, events>>

\* part_000:99,106,110,114,118: the function returns: its deferred cancel runs
\* and its locals are gone
partReturn ==
    /\ draft = "part" /\ pc = "return"
    /\ session' = CancelAll(session, partDeferred)
    /\ proc' = (proc /\ "page" \in session')
    /\ leaked' = leaked \cup session'
    /\ events' = Append(events, Ev("return", AttemptNo, 0, err.kind))
    /\ screenshotPath' = 0
    /\ buf' = <<>>
    /\ steps' = <<>>
    /\ osCalls' = <<>>
    /\ ops' = <<>>
    /\ pc' = "result"
    /\ UNCHANGED <<draft, flags, cfg, attempt, lastErr, cycleErr, err, files, orphaned,
                   dirBefore, clock, cycle, tracking, faults, created, log>>

-----------------------------------------------------------------------------
(* Deadlines and calls that do not return *)

\* the clock when the deadline of the attempt passes: the timeout after the
\* contexts were made, which is when screenshotPath was formatted
DeadlineAt(timeout) ==
    IF tracking
    THEN (screenshotPath + timeout) * TicksPerSecond + (clock % TicksPerSecond)
    ELSE clock

\* where the goroutine is while the timer of the attempt's deadline is armed:
\* it waits in an action of chromedp.Run, in os.WriteFile or in a command of
\* setLockScreen
WaitingPcs == {"capture", "write", "apply", "fallback", "blocked"}

\* main.go:127: the timer of allocCtx fires while an action of chromedp.Run,
\* os.WriteFile or a command of setLockScreen runs, which takes that long:
\* the four contexts are done and the browser process is killed.  The action
\* of chromedp.Run then returns the error of the context; os.WriteFile and
\* the commands go on
mainDeadline ==
    /\ draft = "main" /\ pc \in WaitingPcs
    /\ TimeoutCtx \in session
    /\ MayFail
    /\ faults' = Failed
    /\ session' = Cancel(session, TimeoutCtx)
    /\ proc' = FALSE
    /\ clock' = DeadlineAt(mainAllocTimeout)
    /\ UNCHANGED <<draft, flags, cfg, pc, attempt, lastErr, cycleErr, err, leaked,
                   screenshotPath, buf, steps, osCalls, files, orphaned, dirBefore,
                   cycle, tracking, created, ops, events, log>>

\* part_000:135: the timer of ctx fires while an action of chromedp.Run,
\* os.WriteFile or the command of setLockScreen runs: ctx is done, and the
\* browser process, started under ctx by chromedp.Run, is killed.  The action
\* of chromedp.Run then returns the error of the context; os.WriteFile and
\* the command go on
partDeadline ==
    /\ draft = "part" /\ pc \in WaitingPcs
    /\ TimeoutCtx \in session
    /\ MayFail
    /\ faults' = Failed
    /\ session' = Cancel(session, TimeoutCtx)
    /\ proc' = FALSE
    /\ clock' = DeadlineAt(browserTimeout)
    /\ UNCHANGED <<draft, flags, cfg, pc, attempt, lastErr, cycleErr, err, leaked,
                   screenshotPath, buf, steps, osCalls, files, orphaned, dirBefore,
                   cycle, tracking, created, ops, events, log>>

\* the lines of the log that a callback of the browser wrote
BrowserLines ==
    { i \in 1..Len(log) : log[i].msg \in {"Browser: %s", "Browser Error: %s", "%s"} }

\* main.go:136-141: chromedp calls the function given to WithLogf or to
\* WithErrorf, from a goroutine of the browser, while the browser runs: from
\* the time chromedp.Run has allocated it, between any two steps of the
\* attempt, until the process is gone
mainBrowserLog ==
    /\ draft = "main" /\ pc \in WaitingPcs \cup {"return"}
    /\ proc
    /\ MayFail /\ Cardinality(BrowserLines) < MaxBrowserLines
    /\ faults' = Failed
    /\ \E m \in {"Browser: %s", "Browser Error: %s"} :
          log' = Append(log, Line(m, 0, NoErr))
    /\ UNCHANGED <<draft, flags, cfg, pc, attempt, lastErr, cycleErr, err, session,
                   proc, leaked, screenshotPath, buf, steps, osCalls, files, orphaned,
                   dirBefore, clock, cycle, tracking, created, ops, events>>

\* part_000:132-133: chromedp calls log.Printf, given to WithLogf and to
\* WithErrorf, from a goroutine of the browser, while the browser runs: from
\* the time chromedp.Run has allocated it, between any two steps of the
\* attempt, until the process is gone
partBrowserLog ==
    /\ draft = "part" /\ pc \in WaitingPcs \cup {"return"}
    /\ proc
    /\ MayFail /\ Cardinality(BrowserLines) < MaxBrowserLines
    /\ faults' = Failed
    /\ log' = Append(log, Line("%s", 0, NoErr))
    /\ UNCHANGED <<draft, flags, cfg, pc, attempt, lastErr, cycleErr, err, session,
                   proc, leaked, screenshotPath, buf, steps, osCalls, files, orphaned,
                   dirBefore, clock, cycle, tracking, created, ops, events>>

\* main.go:83,102: exec.Command(...).CombinedOutput() is given no context and
\* no deadline: it waits for bash for as long as bash runs.  The lock command
\* or the desktop command does not return.
mainSetLockScreenBlocks ==
    /\ draft = "main" /\ pc \in {"apply", "fallback"}
    /\ pc' = "blocked"
    /\ UNCHANGED <<draft, flags, cfg, attempt, lastErr, cycleErr, err, session, proc,
                   leaked, screenshotPath, buf, steps, osCalls, files, orphaned,
                   dirBefore, clock, cycle, tracking, faults, created, ops, events, log>>

\* part_000:161-162: cmd.CombinedOutput() of a command without a context
partSetLockScreenBlocks ==
    /\ draft = "part" /\ pc = "apply"
    /\ pc' = "blocked"
    /\ UNCHANGED <<draft, flags, cfg, attempt, lastErr, cycleErr, err, session, proc,
                   leaked, screenshotPath, buf, steps, osCalls, files, orphaned,
                   dirBefore, clock, cycle, tracking, faults, created, ops, events, log>>

-----------------------------------------------------------------------------
(* Specifications *)

Next ==
    \/ mainParseFlags
    \/ mainUserHomeDir
    \/ mainMkdirAll
    \/ partParseFlags
    \/ partUserHomeDir
    \/ partMkdirAll
    \/ mainCycleStart
    \/ mainRetryIter
    \/ mainLoopExit
    \/ mainAcquire
    \/ mainCapture
    \/ mainWrite
    \/ mainApply
    \/ mainApplyFallback
    \/ mainDeadline
    \/ mainBrowserLog
    \/ mainReturn
    \/ mainHandleResult
    \/ mainReport
    \/ partCycleStart
    \/ partRetryIter
    \/ partLoopExit
    \/ partAcquire
    \/ partCapture
    \/ partWrite
    \/ partApply
    \/ partDeadline
    \/ partBrowserLog
    \/ partReturn
    \/ partHandleResult
    \/ partReport

Spec == Init /\ [][Next]_vars

\* every call the program makes returns: the one thread always takes its next step
SpecLive == InitLive /\ [][Next]_vars /\ WF_vars(Next)

\* Next, and the OS command of setLockScreen may never return
NextHang ==
    \/ Next
    \/ mainSetLockScreenBlocks
    \/ partSetLockScreenBlocks

\* the loop without end in which an OS command may never return; what can
\* happen next does happen
SpecHang == InitLive /\ [][NextHang]_vars /\ WF_vars(NextHang)

-----------------------------------------------------------------------------
(* Properties *)

\* files the current cycle added to the output directory
NewFiles == Names(files) \ dirBefore

\* width, height > 0, interval > 0
ValidConfig == flags.width > 0 /\ flags.height > 0 /\ flags.sleep > 0

Attempts == SelectSeq(events, LAMBDA e : e.op = "attempt")
Returns == SelectSeq(events, LAMBDA e : e.op = "return")
Count(s, op, k) == Cardinality({ i \in 1..Len(s) : s[i].op = op /\ s[i].k = k })

\* an event without its path: what was done, for which attempt, how long a
\* sleep, and whether it went well
Shape(e) ==
    [op |-> e.op, n |-> e.n, v |-> IF e.op = "sleep" THEN e.v ELSE 0, ok |-> e.k = "nil"]

ShapeOf(s) == [i \in 1..Len(s) |-> Shape(s[i])]

RECURSIVE ExpectedRun(_, _)
\* the schedule of a run of k attempts of which the first k-1 fail and the
\* last succeeds iff good: 30 s are slept before each attempt but the first
ExpectedRun(k, good) ==
    IF k = 0 THEN << >>
    ELSE ExpectedRun(k - 1, FALSE)
         \o (IF k > 1 THEN << [op |-> "sleep", n |-> k, v |-> 30, ok |-> TRUE] >> ELSE << >>)
         \o << [op |-> "attempt", n |-> k, v |-> 0, ok |-> TRUE],
               [op |-> "return", n |-> k, v |-> 0, ok |-> good] >>

\* C1, as stated: when the retry routine has returned under a valid config,
\* it returned Success and the cycle added exactly one file, or it returned
\* Failure and the cycle added no file.
C1_OneFileOrNone ==
    (tracking /\ pc = "report" /\ ValidConfig) =>
        \/ cycleErr = NoErr /\ Cardinality(NewFiles) = 1
        \/ cycleErr # NoErr /\ Cardinality(NewFiles) = 0

\* C1, amended: when the retry routine has returned under a valid config, the
\* cycle added one file for every attempt that created its file: each attempt
\* whose apply failed and the successful attempt left one, each attempt whose
\* save failed left one or none, each attempt whose capture failed left none;
\* on Success the file of the last attempt holds a whole image.
C1_FilePerCreatingAttempt ==
    (tracking /\ pc = "report" /\ ValidConfig) =>
        LET locks == Count(events, "return", "lockscreen")
            saves == Count(events, "return", "save")
            succ  == IF cycleErr = NoErr THEN 1 ELSE 0
            new   == Cardinality(NewFiles)
        IN  /\ new = created
            /\ locks + succ <= new
            /\ new <= locks + saves + succ
            /\ cycleErr = NoErr =>
                 \E img \in Images :
                    [name |-> Attempts[Len(Attempts)].v, data |-> img] \in files

\* a cycle under a valid config that ended in Failure and left three files
C1_Witness ==
    /\ tracking /\ pc = "report" /\ ValidConfig
    /\ cycleErr # NoErr
    /\ Cardinality(NewFiles) = 3

\* C2: when the retry routine has returned Success, its schedule was, for some
\* k in 1..3: attempts 1..k in order, the first k-1 failed and the k-th good,
\* nothing after it, and a sleep of 30 s before each of attempts 2..k and
\* nowhere else; and every attempt called the capture exactly once.
C2_RetrySchedule ==
    /\ (pc = "report" /\ cycleErr = NoErr) =>
          \E k \in 1..3 : ShapeOf(events) = ExpectedRun(k, TRUE)
    /\ pc = "return" =>
          Cardinality({ i \in 1..Len(ops) : ops[i].op = "capture" }) = 1

\* a cycle that failed twice and succeeded on the third attempt
C2_Witness ==
    /\ pc = "report" /\ cycleErr = NoErr
    /\ Len(Returns) = 3

\* C3: when the retry routine has returned Failure, its schedule was three
\* failed attempts and no more, and the error it returned is the error of
\* the third attempt (in part_000 wrapped with the number 3); no cycle ever
\* makes more than three attempts.
C3_ThreeAttemptsLastError ==
    /\ Len(Attempts) <= 3
    /\ (pc = "report" /\ cycleErr # NoErr) =>
          /\ ShapeOf(events) = ExpectedRun(3, FALSE)
          /\ WrapAttempt(0, cycleErr) = err
          /\ cycleErr.kind = Returns[3].k
          /\ draft = "part" => cycleErr.attempt = 3

\* a failed cycle whose first and third attempts failed differently
C3_Witness ==
    /\ pc = "report" /\ cycleErr # NoErr
    /\ Len(Returns) = 3
    /\ Returns[1].k # Returns[3].k

\* C4: once the scheduler loop is entered, a new cycle is started again and
\* again from wherever the program is; every cycle start but the
\* first follows exactly one sleep of the interval, the last thing the cycle
\* before it did; and the report of a cycle, failed or not, leads nowhere but
\* to the next cycle start.
C4_LoopForever ==
    /\ [](pc \notin (StartupPcs \cup {"exit"}) => <>(pc = "loop" /\ events = << >>))
    /\ [][ /\ (pc = "cycle" /\ pc' = "loop" /\ events # << >>) =>
                /\ Cardinality({ i \in 1..Len(events) :
                                   events[i].op = "sleep" /\ events[i].n = 0 }) = 1
                /\ events[Len(events)] = Ev("sleep", 0, flags.sleep * Minute, "nil")
           /\ pc = "report" => pc' = "cycle"
           /\ pc = "cycle" => pc' = "loop" ]_vars

\* a cycle has started after a cycle whose last attempt failed
C4_Witness ==
    /\ pc = "loop" /\ events = << >>
    /\ err # NoErr

\* C5: when an attempt has returned, no context it created is left
\* un-cancelled and its browser process is gone.
C5_SessionReleased ==
    pc = "result" => (session = {} /\ ~proc)

\* whether an OS command reported an error: a non-zero exit or an error text
ReportedError(c) == c.exit # 0 \/ c.out = "Error: msg\n"

\* C6: when setLockScreen has returned and the last OS command it ran
\* reported an error, it returned a failure that carries that command's raw
\* output.
C6_ApplyErrorSurfaced ==
    (pc = "return" /\ osCalls # << >>) =>
        LET last == osCalls[Len(osCalls)] IN
        ReportedError(last) => (err.kind = "lockscreen" /\ err.out = last.out)

\* C7: when a cycle is over, the log holds for every failed attempt of the
\* cycle a line with the attempt's number and its error.
C7_EveryFailureLogged ==
    (pc = "cycle" /\ events # << >>) =>
        \A i \in 1..Len(events) :
            (events[i].op = "return" /\ events[i].k # "nil") =>
                \E j \in 1..Len(log) :
                    /\ log[j].err.kind = events[i].k
                    /\ log[j].n = events[i].n \/ log[j].err.attempt = events[i].n

\* C8: every file written by an attempt whose apply then failed is in the
\* output directory with the content that was written, at every later time.
C8_OrphanKept == orphaned \subseteq files

\* the second cycle has added files while a file of the first cycle whose
\* apply failed is there
C8_Witness ==
    /\ tracking /\ cycle = 2 /\ pc = "report"
    /\ NewFiles # {}
    /\ \E o \in orphaned : o.name \in dirBefore

\* C9: no write targets a name that is in the output directory, the attempts
\* of a cycle have distinct names, and no step removes or rewrites a file.
C9_NamesNeverCollide ==
    /\ []((tracking /\ pc = "write") => screenshotPath \notin Names(files))
    /\ [](\A i, j \in 1..Len(Attempts) : i # j => Attempts[i].v # Attempts[j].v)
    /\ [][files \subseteq files']_vars

\* the first attempt of the second cycle, started right after the first
\* cycle (interval 0), is about to write while files of the first cycle exist
C9_Witness ==
    /\ tracking /\ pc = "write" /\ cycle = 2
    /\ flags.sleep = 0
    /\ AttemptNo = 1
    /\ dirBefore # {}

\* C10: what an attempt has done when it returns is one of: a failed capture;
\* a capture and a failed write; a capture, a write and one apply, the apply
\* with the path just written, whose file holds the captured bytes.  OS
\* commands ran only in the third case.  A cycle whose first attempt
\* succeeded added exactly the file of that attempt.
C10_ApplyOnceAfterWrite ==
    /\ pc = "return" =>
        /\ \/ /\ Len(ops) = 1
              /\ ops[1].op = "capture" /\ ops[1].k # "nil"
           \/ /\ Len(ops) = 2
              /\ ops[1].op = "capture" /\ ops[1].k = "nil"
              /\ ops[2].op = "write" /\ ops[2].k # "nil"
           \/ /\ Len(ops) = 3
              /\ ops[1].op = "capture" /\ ops[1].k = "nil"
              /\ ops[2].op = "write" /\ ops[2].k = "nil"
              /\ ops[3].op = "apply"
              /\ ops[3].v = ops[2].v /\ ops[2].v = screenshotPath
              /\ buf \in Images
              /\ tracking => [name |-> ops[3].v, data |-> buf] \in files
        /\ osCalls # << >> <=> Len(ops) = 3
    /\ (tracking /\ pc = "report" /\ cycleErr = NoErr /\ Len(Attempts) = 1) =>
          NewFiles = { Attempts[1].v }

\* the first attempt of a cycle has captured, written and applied
C10_Witness ==
    /\ tracking /\ pc = "return"
    /\ AttemptNo = 1
    /\ Len(ops) = 3 /\ err = NoErr

\* whether the log ends with the line of a failed home directory resolution
\* or directory creation
StartupFailed ==
    log # << >> /\ log[Len(log)].err.kind \in {"home", "mkdir"}

\* C11: a failed home directory resolution or directory creation leaves the
\* process terminated, with no cycle and no attempt started; the process
\* terminates from nowhere but a startup step; and once the scheduler loop is
\* entered, the program stays in it, whatever error an attempt returns.
C11_OnlyStartupFatal ==
    /\ [](StartupFailed => pc = "exit")
    /\ [](pc = "exit" =>
            /\ events = << >> /\ ops = << >> /\ attempt = 0 /\ session = {}
            /\ tracking => (cycle = 0 /\ files = {}))
    /\ [][ /\ pc' = "exit" => pc \in StartupPcs \cup {"exit"}
           /\ pc \notin (StartupPcs \cup {"exit"}) => pc' \notin (StartupPcs \cup {"exit"})
         ]_vars

\* the directory could not be created: the process has terminated
C11_Witness ==
    /\ pc = "exit"
    /\ log # << >> /\ log[Len(log)].err.kind = "mkdir"

\* C12: while the file of an attempt is written and while its background is
\* applied, no context of the attempt's browser session is live and its
\* browser process is gone.
C12_ReleasedBeforeWrite ==
    pc \in {"write", "apply", "fallback"} => (session = {} /\ ~proc)

\* whether the deadline of the current attempt's session has passed
Expired ==
    /\ pc \in {"capture", "write", "apply", "fallback", "blocked", "return"}
    /\ TimeoutCtx \notin session

\* C13: once the deadline of an attempt's session has passed, the context
\* the capture runs on is done, the browser process is gone, and the attempt
\* is in the capture, whose step is about to fail, or is returning a failure
\* to the retry loop: no attempt is held by a step that outlasts the deadline.
C13_TimeoutCoversSession ==
    Expired => /\ "page" \notin session /\ ~proc
               /\ pc \in {"capture", "return"}
               /\ pc = "return" => err # NoErr

\* whether the schedule of the cycle is strictly sequential: every attempt
\* that started is followed at once by its own return, unless it is the one
\* in progress, and every sleep follows a return or starts the schedule
Sequential(s) ==
    \A i \in 1..Len(s) :
        /\ s[i].op = "attempt" =>
              \/ i = Len(s)
              \/ s[i + 1].op = "return" /\ s[i + 1].n = s[i].n
        /\ (s[i].op \in {"sleep", "attempt"} /\ i > 1) =>
              s[i - 1].op \in {"return", "sleep"}
        /\ (s[i].op = "sleep" /\ s[i].n = 0) => i = Len(s)

\* C14: every context that is live belongs to the one attempt in progress:
\* none is left of an attempt that returned, none is live between attempts,
\* during a retry delay or the inter-cycle sleep; an attempt starts with no
\* session and nothing left of the attempt before it; the schedule of a
\* cycle is strictly sequential and the inter-cycle sleep is its last entry.
C14_OneSessionSequential ==
    /\ leaked = {}
    /\ pc \notin {"capture", "write", "apply", "fallback", "return"} => (session = {} /\ ~proc)
    /\ pc = "acquire" => (ops = << >> /\ steps = << >> /\ osCalls = << >> /\ buf = << >>)
    /\ Sequential(events)
    /\ Len(Attempts) - Len(Returns) =
          (IF pc \in {"capture", "write", "apply", "fallback", "return"} THEN 1 ELSE 0)

\* the steps of the capture the claim names, in the order it names them
CaptureOrder ==
    <<"SetExtraHTTPHeaders", "Navigate", "WaitVisible", "Sleep", "FullScreenshot">>

\* the actions the current draft hands to chromedp.Run
Actions == IF draft = "main" THEN mainActions ELSE partActions

\* C15: the steps an attempt's capture has run are the first ones of the
\* draft's list, in its order, which holds the five named steps in the named
\* order; they end with the first step that failed, so no step ran after a
\* failure; the capture that went through has waited its 5 seconds; and an
\* attempt whose capture failed returns a capture failure having done nothing
\* but the capture: no bytes held, no file of its name, no OS command.
C15_CaptureInOrder ==
    /\ SelectSeq(Actions, LAMBDA a : Has(CaptureOrder, a)) = CaptureOrder
    /\ pc = "capture" =>
          /\ ops = << >> /\ steps # << >>
          /\ steps = SubSeq(Actions, 1, Len(steps))
    /\ (pc \in {"write", "apply", "fallback", "return"}) =>
          /\ Len(ops) >= 1 /\ ops[1].op = "capture"
          /\ steps = SubSeq(Actions, 1, Len(steps))
          /\ IF ops[1].k = "nil"
             THEN steps = Actions /\ ops[1].v = Len(Actions)
             ELSE Len(steps) = ops[1].v + 1
    /\ (tracking /\ pc = "write") => Format(clock) - screenshotPath >= 5
    /\ (pc = "return" /\ Len(ops) >= 1 /\ ops[1].k # "nil") =>
          /\ err.kind = "capture"
          /\ Len(ops) = 1 /\ buf = << >> /\ osCalls = << >>
          /\ tracking => screenshotPath \notin Names(files)

\* an attempt of the second cycle whose capture failed at the wait for the
\* body returns, while the directory holds files
C15_Witness ==
    /\ tracking /\ pc = "return" /\ cycle = 2
    /\ err.kind = "capture"
    /\ steps # << >> /\ steps[Len(steps)] = "WaitVisible"
    /\ files # {}

\* whether an OS command reported success: exit status 0 and the text
\* "Success", as osascript prints it (with a newline) or bare
Succeeded(c) == c.exit = 0 /\ c.out \in {"Success\n", "Success"}

\* C16: when setLockScreen of main.go has returned: the fallback command ran
\* if the primary command did not succeed, it did not run if the primary
\* succeeded, and nil was returned only if the primary or the fallback
\* succeeded.
C16_FallbackOnlyOnFailure ==
    (draft = "main" /\ pc = "return" /\ osCalls # << >>) =>
        /\ osCalls[1].script = "lock"
        /\ ~Succeeded(osCalls[1]) =>
              (Len(osCalls) = 2 /\ osCalls[2].script = "desktop")
        /\ Succeeded(osCalls[1]) => Len(osCalls) = 1
        /\ err = NoErr => \E i \in 1..Len(osCalls) : Succeeded(osCalls[i])

\* C17: the flags and the config built from them never change, and whenever
\* the program is in the scheduler loop the width and the height are positive
\* and so is the interval, in the flags main.go reads and in the config
\* part_000 builds.
C17_ConfigValidImmutable ==
    /\ [][flags' = flags /\ cfg' = cfg]_vars
    /\ [](pc \notin (StartupPcs \cup {"exit"}) =>
            /\ ValidConfig /\ mainInterval(flags) > 0
            /\ cfg.width > 0 /\ cfg.height > 0 /\ cfg.sleepTime > 0)

\* the outcomes of the attempts of the current cycle, in order: whether
\* takeAndSetScreenshot returned nil
Outcomes == [i \in 1..Len(Returns) |-> Returns[i].k = "nil"]

\* whether the log holds the line of a cycle whose attempts all failed
ReportsFailure ==
    \E j \in 1..Len(log) :
        log[j].msg \in {"All attempts failed. Last error: %v",
                        "All screenshot attempts failed: %v"}

\* C18: when a cycle is over, in either draft, what it did is one function
\* of the outcomes of its attempts and of the sleep flag, and of nothing
\* else: the outcomes are failures up to a first success or to the third
\* failure; the schedule is the attempts 1..k with 30 s before each but the
\* first and then one sleep of the interval; and the cycle is reported as
\* failed exactly when the last attempt failed.  The two drafts therefore
\* agree on every sequence of outcomes.
C18_DraftsSameSchedule ==
    (pc = "cycle" /\ events # << >>) =>
        LET o == Outcomes
            k == Len(o)
        IN  /\ k \in 1..3
            /\ \A i \in 1..(k - 1) : ~o[i]
            /\ o[k] \/ k = 3
            /\ ShapeOf(events) =
                  ExpectedRun(k, o[k]) \o
                  << [op |-> "sleep", n |-> 0, v |-> flags.sleep * 60, ok |-> TRUE] >>
            /\ (cycleErr = NoErr) <=> o[k]
            /\ ReportsFailure <=> ~o[k]

\* part_000 has ended a cycle whose third attempt succeeded
C18_Witness ==
    /\ draft = "part" /\ pc = "cycle"
    /\ Len(Returns) = 3 /\ Returns[3].k = "nil"
    /\ flags.sleep = 10

====
